---- MODULE Spec2Model ----
(***************************************************************************)
(* Model of scripts/version_manifest.py: the scheduled script that fetches *)
(* Mojang's version_manifest.json and caches it, re-serialized, under      *)
(* ~/.axiom, logging to scripts/logs/version_manifest.log.                 *)
(*                                                                         *)
(* Text (a response body, the cache file, a log message) is a sequence of  *)
(* lexemes: one-character punctuation and blanks, and whole literals.      *)
(***************************************************************************)
EXTENDS Integers, Sequences, FiniteSets, TLC

\* ------------------------------------------------------------------ bounds
\* Runs the scheduler starts in one behaviour.
MaxRuns == 2
\* Lexemes one write system call of write_text puts into the file.
ChunkSize == 24
\* Records the HTTP library emits on its own loggers in one behaviour.
MaxLibRecords == 1

\* ------------------------------------------------------- program constants
\* The only status main() accepts.
HTTP_OK == 200
\* json.dumps(..., indent=4)
Indent == 4
\* Width of the level field, "%(levelname)-5s".
LevelWidth == 5
\* The logging module's numeric levels.
DEBUG == 10
INFO == 20
WARNING == 30
ERROR == 40
CRITICAL == 50

Procs == {1, 2}

Min(a, b) == IF a < b THEN a ELSE b

\* ------------------------------------------------------------- JSON (json)
WS == {" ", "\n"}

\* What json.loads makes of a scalar lexeme, named by the text json.dumps
\* gives back for it (ensure_ascii=True, float repr).
ScalarCanon ==
    ("\"a\"" :> "\"a\"") @@ ("\"b\"" :> "\"b\"") @@
    ("\"1.21\"" :> "\"1.21\"") @@ ("\"1.21-rc1\"" :> "\"1.21-rc1\"") @@
    ("\"latest\"" :> "\"latest\"") @@ ("\"release\"" :> "\"release\"") @@
    ("\"snapshot\"" :> "\"snapshot\"") @@ ("\"versions\"" :> "\"versions\"") @@
    ("\"<U+00E9>\"" :> "\"\\u00e9\"") @@ ("\"\\u00e9\"" :> "\"\\u00e9\"") @@
    ("1" :> "1") @@ ("2" :> "2") @@ ("1e2" :> "100.0") @@ ("100.0" :> "100.0") @@
    ("true" :> "true") @@ ("null" :> "null")

StringLex == {"\"a\"", "\"b\"", "\"1.21\"", "\"1.21-rc1\"", "\"latest\"",
              "\"release\"", "\"snapshot\"", "\"versions\"",
              "\"<U+00E9>\"", "\"\\u00e9\""}

\* A byte sequence that is not UTF-8.
BadByte == "<ff>"

\* Python values: a scalar, a list, or a dict kept in insertion order as
\* <<key type, key, value>> items.
Scalar(c) == [t |-> "scalar", v |-> <<c>>]
List(vs) == [t |-> "list", v |-> vs]
Dict(items) == [t |-> "dict", v |-> items]

NoParse == [ok |-> FALSE, val |-> Scalar("null"), next |-> 0]
Parsed(val, next) == [ok |-> TRUE, val |-> val, next |-> next]

RECURSIVE SkipWS(_, _)
SkipWS(toks, i) ==
    IF i <= Len(toks) /\ toks[i] \in WS THEN SkipWS(toks, i + 1) ELSE i

\* dict[key] = value: an existing key keeps its place and takes the value.
RECURSIVE SetItem(_, _, _)
SetItem(items, key, val) ==
    IF items = <<>> THEN << <<"str", key, val>> >>
    ELSE IF Head(items)[1] = "str" /\ Head(items)[2] = key
         THEN << <<"str", key, val>> >> \o Tail(items)
         ELSE <<Head(items)>> \o SetItem(Tail(items), key, val)

RECURSIVE ParseValue(_, _)
RECURSIVE ParseElems(_, _, _)
RECURSIVE ParseMembers(_, _, _)

\* The elements of an array after "[" or ",": value, then "," or "]".
ParseElems(toks, i, acc) ==
    LET r == ParseValue(toks, i)
        j == SkipWS(toks, r.next)
    IN  IF ~r.ok \/ j > Len(toks) THEN NoParse
        ELSE IF toks[j] = "]" THEN Parsed(List(Append(acc, r.val)), j + 1)
        ELSE IF toks[j] = "," THEN ParseElems(toks, j + 1, Append(acc, r.val))
        ELSE NoParse

\* The members of an object after "{" or ",": string, ":", value, then
\* "," or "}".
ParseMembers(toks, i, acc) ==
    LET k == SkipWS(toks, i)
        c == SkipWS(toks, k + 1)
    IN  IF k > Len(toks) \/ c > Len(toks) THEN NoParse
        ELSE IF toks[k] \notin StringLex \/ toks[c] # ":" THEN NoParse
        ELSE LET r == ParseValue(toks, c + 1)
                 j == SkipWS(toks, r.next)
                 items == SetItem(acc, ScalarCanon[toks[k]], r.val)
             IN  IF ~r.ok \/ j > Len(toks) THEN NoParse
                 ELSE IF toks[j] = "}" THEN Parsed(Dict(items), j + 1)
                 ELSE IF toks[j] = "," THEN ParseMembers(toks, j + 1, items)
                 ELSE NoParse

ParseValue(toks, i) ==
    LET j == SkipWS(toks, i)
    IN  IF j > Len(toks) THEN NoParse
        ELSE IF toks[j] \in DOMAIN ScalarCanon
             THEN Parsed(Scalar(ScalarCanon[toks[j]]), j + 1)
        ELSE IF toks[j] = "["
             THEN LET k == SkipWS(toks, j + 1)
                  IN  IF k <= Len(toks) /\ toks[k] = "]"
                      THEN Parsed(List(<<>>), k + 1)
                      ELSE ParseElems(toks, j + 1, <<>>)
        ELSE IF toks[j] = "{"
             THEN LET k == SkipWS(toks, j + 1)
                  IN  IF k <= Len(toks) /\ toks[k] = "}"
                      THEN Parsed(Dict(<<>>), k + 1)
                      ELSE ParseMembers(toks, j + 1, <<>>)
        ELSE NoParse

\* response.json() / json.loads: one value and nothing but blanks after it.
Loads(toks) ==
    LET r == ParseValue(toks, 1)
    IN  IF r.ok /\ SkipWS(toks, r.next) > Len(toks) THEN r ELSE NoParse

IsJson(toks) == Loads(toks).ok

\* The newline and indentation json.dumps puts before an item at a depth.
NewlineIndent(depth) == <<"\n">> \o [i \in 1..(Indent * depth) |-> " "]

\* Variant: skipkeys taken to skip the string keys too.
NonStringKeys == {"int", "float", "bool", "None"}

\* Key types json.dumps can encode; any other key is skipped (skipkeys=True).
EncodableKeys == {"str", "int", "float", "bool", "None"}

RECURSIVE Encode(_, _)
RECURSIVE EncodeElems(_, _, _)
RECURSIVE EncodeItems(_, _, _)

EncodeElems(vs, depth, first) ==
    IF vs = <<>> THEN <<>>
    ELSE (IF first THEN <<>> ELSE <<",">>) \o NewlineIndent(depth)
         \o Encode(Head(vs), depth) \o EncodeElems(Tail(vs), depth, FALSE)

EncodeItems(items, depth, first) ==
    IF items = <<>> THEN <<>>
    ELSE IF Head(items)[1] \notin EncodableKeys
         THEN EncodeItems(Tail(items), depth, first)
         ELSE (IF first THEN <<>> ELSE <<",">>) \o NewlineIndent(depth)
              \o <<Head(items)[2], ":", " ">> \o Encode(Head(items)[3], depth)
              \o EncodeItems(Tail(items), depth, FALSE)

Encode(val, depth) ==
    IF val.t = "scalar" THEN val.v
    ELSE IF val.t = "list"
         THEN IF val.v = <<>> THEN <<"[", "]">>
              ELSE <<"[">> \o EncodeElems(val.v, depth + 1, TRUE)
                   \o NewlineIndent(depth) \o <<"]">>
    ELSE IF val.v = <<>> THEN <<"{", "}">>
         ELSE <<"{">> \o EncodeItems(val.v, depth + 1, TRUE)
              \o NewlineIndent(depth) \o <<"}">>

\* json.dumps(value, skipkeys=True, indent=4)
Dumps(val) == Encode(val, 0)

\* bytes.decode("utf-8"): raises on a byte sequence that is not UTF-8, and
\* turns the two bytes c3 a9 into the one character U+00E9.
CanDecode(body) == \A i \in 1..Len(body) : body[i] # BadByte
DecodeLex(b) ==
    IF b = "\"<c3><a9>\"" THEN "\"<U+00E9>\""
    ELSE IF b = BadByte THEN "<U+FFFD>" ELSE b
Decode(body) == [i \in 1..Len(body) |-> DecodeLex(body[i])]

\* response.json(): the body decoded (undecodable bytes replaced), parsed.
ResponseJson(body) == Loads(Decode(body))

\* ------------------------------------------------------------ HTTP inputs
BodyNested ==
    <<"{", "\"latest\"", ":", "{", "\"release\"", ":", "\"1.21\"", ",",
      "\"snapshot\"", ":", "\"1.21-rc1\"", "}", ",", "\"versions\"", ":",
      "[", "]", "}">>
\* A repeated key, a float in exponent form, raw UTF-8, blanks.
BodySmall ==
    <<"{", "\"a\"", ":", "1", ",", " ", "\"a\"", ":", "[", "1e2", ",",
      "\"<c3><a9>\"", "]", "}", "\n">>
BodyTruncated == <<"{", "\"latest\"", ":">>
BodyErrorPage == <<"<html>", "Not Found", "</html>">>
BodyBadBytes == <<"<html>", BadByte>>

Bodies == {BodyNested, BodySmall, BodyTruncated, BodyErrorPage, BodyBadBytes}
Statuses == {200, 204, 404}
NoResponse == [status |-> 0, body |-> <<>>]

\* response.json() and json.dumps(..., skipkeys=True, indent=4) of it, for
\* each body a response can have.
JsonOf == [b \in Bodies |-> ResponseJson(b)]
TextOf == [b \in Bodies |-> Dumps(JsonOf[b].val)]


\* ------------------------------------------------------------------ state
VARIABLES
    pc,          \* where each process is in main()
    resp,        \* the response requests.get returned
    text,        \* the serialized manifest (line 110)
    offset,      \* position of the process's open handle on the cache file
    gets,        \* HTTP GETs the run has issued
    writes,      \* write_text calls the run has made
    fault,       \* the exception that ended the run, "none" if none
    levelNames,  \* the process's logging level-name table
    rootLevel,   \* the process's root logger level
    hasHandler,  \* whether the file handler is on the root logger
    logStart,    \* length of the log file when the run started
    pre,         \* ~/.axiom and the cache file as the run found them
    logsDir,     \* scripts/logs exists
    logFile,     \* the lines of scripts/logs/version_manifest.log
    axiomDir,    \* ~/.axiom exists
    fileExists,  \* ~/.axiom/version_manifest.json exists
    fileData,    \* its content
    runs,        \* runs started so far
    lastWritten, \* the text most recently handed to write_text
    overlapped,  \* some run started while another was under way
    libRecords   \* records the HTTP library has emitted so far

procVars == <<pc, resp, text, offset, gets, writes, fault,
              levelNames, rootLevel, hasHandler, logStart, pre>>
logVars == <<logsDir, logFile>>
cacheVars == <<axiomDir, fileExists, fileData>>
vars == <<procVars, logVars, cacheVars, runs, lastWritten, overlapped,
          libRecords>>

Terminal == {"Idle", "Persisted", "Failed"}
Active(p) == pc[p] \notin Terminal

\* The logging module's level names before setup_logging.
DefaultLevelNames ==
    (DEBUG :> "DEBUG") @@ (INFO :> "INFO") @@ (WARNING :> "WARNING") @@
    (ERROR :> "ERROR") @@ (CRITICAL :> "CRITICAL")
StdLevels == DOMAIN DefaultLevelNames

CachePath == "/home/user/.axiom/version_manifest.json"
\* (the message without its backquotes)
MsgUpdating == <<"Updating version_manifest.json...">>
MsgNot200 == "Status code did not return 200 OK: "
MsgWrote == "Wrote version_manifest to: "
LibLoggerName == "urllib3.connectionpool"
\* The levels a library below the root logger may log at.
LibLevels == {DEBUG, WARNING, CRITICAL}

Init ==
    /\ pc = [p \in Procs |-> "Idle"]
    /\ resp = [p \in Procs |-> NoResponse]
    /\ text = [p \in Procs |-> <<>>]
    /\ offset = [p \in Procs |-> 0]
    /\ gets = [p \in Procs |-> 0]
    /\ writes = [p \in Procs |-> 0]
    /\ fault = [p \in Procs |-> "none"]
    /\ levelNames = [p \in Procs |-> DefaultLevelNames]
    /\ rootLevel = [p \in Procs |-> WARNING]
    /\ hasHandler = [p \in Procs |-> FALSE]
    /\ logStart = [p \in Procs |-> 0]
    /\ pre = [p \in Procs |-> [dir |-> FALSE, exists |-> FALSE, data |-> <<>>]]
    /\ logsDir = FALSE
    /\ logFile = <<>>
    /\ axiomDir = FALSE
    /\ fileExists = FALSE
    /\ fileData = <<>>
    /\ runs = 0
    /\ lastWritten = <<>>
    /\ overlapped = FALSE
    /\ libRecords = 0

\* ---------------------------------------------------------------- logging
\* "%(levelname)-5s": left-justified in at least 5 columns, never cut.
RECURSIVE PadRight(_, _)
PadRight(s, width) == IF Len(s) >= width THEN s ELSE PadRight(s \o " ", width)

\* Formatter.format: "%(asctime)s %(levelname)-5s [%(name)s] %(message)s"
\* (the timestamp is left out of the line).
FormatRecord(p, name, level, msg) ==
    [levelname |-> PadRight(levelNames[p][level], LevelWidth),
     name |-> name, message |-> msg]

\* Logger.log on the root logger or one below it: a record under the root
\* level is dropped, and the rest go to the root logger's file handler.
EmitRecord(p, name, level, msg) ==
    IF level >= rootLevel[p] /\ hasHandler[p]
    THEN Append(logFile, FormatRecord(p, name, level, msg))
    ELSE logFile

\* The process starts: main() is called (lines 116-117).
StartRun(p) ==
    /\ runs < MaxRuns
    /\ pc[p] \in Terminal
    /\ pc' = [pc EXCEPT ![p] = "setup"]
    /\ resp' = [resp EXCEPT ![p] = NoResponse]
    /\ text' = [text EXCEPT ![p] = <<>>]
    /\ offset' = [offset EXCEPT ![p] = 0]
    /\ gets' = [gets EXCEPT ![p] = 0]
    /\ writes' = [writes EXCEPT ![p] = 0]
    /\ fault' = [fault EXCEPT ![p] = "none"]
    /\ levelNames' = [levelNames EXCEPT ![p] = DefaultLevelNames]
    /\ rootLevel' = [rootLevel EXCEPT ![p] = WARNING]
    /\ hasHandler' = [hasHandler EXCEPT ![p] = FALSE]
    /\ logStart' = [logStart EXCEPT ![p] = Len(logFile)]
    /\ pre' = [pre EXCEPT ![p] =
                  [dir |-> axiomDir, exists |-> fileExists, data |-> fileData]]
    /\ runs' = runs + 1
    /\ overlapped' = (overlapped \/ \E q \in Procs \ {p} : Active(q))
    /\ UNCHANGED <<logVars, cacheVars, lastWritten, libRecords>>

\* The scheduler starts a run when none is under way.
Schedule(p) ==
    /\ \A q \in Procs : ~Active(q)
    /\ StartRun(p)

\* A run started whatever the other process is doing.
ScheduleOverlapping(p) == StartRun(p)

\* Variant: the addLevelName call for CRITICAL left out.
AddWarnNameOnly(names) == [names EXCEPT ![WARNING] = "WARN"]

\* setup_logging(): level names, the logs directory, the file handler on
\* the root logger, the root level.
AddLevelNames(names) ==
    [names EXCEPT ![WARNING] = "WARN", ![CRITICAL] = "FATAL"]

SetupLogging(p) ==
    /\ pc[p] = "setup"
    /\ levelNames' = [levelNames EXCEPT ![p] = AddLevelNames(levelNames[p])]
    /\ logsDir' = TRUE
    /\ hasHandler' = [hasHandler EXCEPT ![p] = TRUE]
    /\ rootLevel' = [rootLevel EXCEPT ![p] = INFO]
    /\ pc' = [pc EXCEPT ![p] = "announce"]
    /\ UNCHANGED <<resp, text, offset, gets, writes, fault, libRecords,
                   logStart, pre, logFile, cacheVars, runs, lastWritten, overlapped>>

\* logging.info("Updating version_manifest.json...")
LogUpdating(p) ==
    /\ pc[p] = "announce"
    /\ logFile' = EmitRecord(p, "root", INFO, MsgUpdating)
    /\ pc' = [pc EXCEPT ![p] = "get"]
    /\ UNCHANGED <<resp, text, offset, gets, writes, fault, libRecords,
                   levelNames, rootLevel, hasHandler, logStart, pre, logsDir,
                   cacheVars, runs, lastWritten, overlapped>>

\* requests.get(url): the request goes out.
SendGet(p) ==
    /\ pc[p] = "get"
    /\ gets' = [gets EXCEPT ![p] = @ + 1]
    /\ pc' = [pc EXCEPT ![p] = "Fetching"]
    /\ UNCHANGED <<resp, text, offset, writes, fault, libRecords, levelNames,
                   rootLevel, hasHandler, logStart, pre, logVars, cacheVars,
                   runs, lastWritten, overlapped>>

\* The HTTP library logs on its own logger while the request is under way.
LibraryLog(p, level) ==
    /\ pc[p] = "Fetching"
    /\ libRecords < MaxLibRecords
    /\ libRecords' = libRecords + 1
    /\ logFile' = EmitRecord(p, LibLoggerName, level, <<"connection event">>)
    /\ UNCHANGED <<pc, resp, text, offset, gets, writes, fault, levelNames,
                   rootLevel, hasHandler, logStart, pre, logsDir, cacheVars,
                   runs, lastWritten, overlapped>>

\* requests.get returns a response.
ReceiveResponse(p, status, body) ==
    /\ pc[p] = "Fetching"
    /\ resp' = [resp EXCEPT ![p] = [status |-> status, body |-> body]]
    /\ pc' = [pc EXCEPT ![p] = "validate"]
    /\ UNCHANGED <<text, offset, gets, writes, fault, libRecords, levelNames,
                   rootLevel, hasHandler, logStart, pre, logVars, cacheVars,
                   runs, lastWritten, overlapped>>

\* An uncaught exception ends the process.
Raise(p, exc) ==
    /\ fault' = [fault EXCEPT ![p] = exc]
    /\ pc' = [pc EXCEPT ![p] = "Failed"]

\* requests.get raises (connection refused, DNS failure, ...).
NetworkFault(p) ==
    /\ pc[p] = "Fetching"
    /\ Raise(p, "ConnectionError")
    /\ UNCHANGED <<resp, text, offset, gets, writes, libRecords, levelNames,
                   rootLevel, hasHandler, logStart, pre, logVars, cacheVars,
                   runs, lastWritten, overlapped>>

\* Variant: any 2xx status taken as success.
CheckStatusAny2xx(p) ==
    /\ pc[p] = "validate"
    /\ pc' = [pc EXCEPT ![p] =
                 IF resp[p].status < 200 \/ resp[p].status >= 300
                 THEN "report" ELSE "mkdir"]
    /\ UNCHANGED <<resp, text, offset, gets, writes, fault, libRecords,
                   levelNames, rootLevel, hasHandler, logStart, pre, logVars,
                   cacheVars, runs, lastWritten, overlapped>>

\* Variant: a status other than 200 sends the run back to the request.
CheckStatusRetry(p) ==
    /\ pc[p] = "validate"
    /\ pc' = [pc EXCEPT ![p] =
                 IF resp[p].status # HTTP_OK THEN "get" ELSE "mkdir"]
    /\ UNCHANGED <<resp, text, offset, gets, writes, fault, libRecords,
                   levelNames, rootLevel, hasHandler, logStart, pre, logVars,
                   cacheVars, runs, lastWritten, overlapped>>

\* if response.status_code != 200:
CheckStatus(p) ==
    /\ pc[p] = "validate"
    /\ pc' = [pc EXCEPT ![p] =
                 IF resp[p].status # HTTP_OK THEN "report" ELSE "mkdir"]
    /\ UNCHANGED <<resp, text, offset, gets, writes, fault, libRecords,
                   levelNames, rootLevel, hasHandler, logStart, pre, logVars,
                   cacheVars, runs, lastWritten, overlapped>>

\* Variant: the error message without the response body.
LogErrorWithoutBody(p) ==
    /\ pc[p] = "report"
    /\ logFile' = EmitRecord(p, "root", ERROR, <<MsgNot200>>)
    /\ pc' = [pc EXCEPT ![p] = "Failed"]
    /\ UNCHANGED <<resp, text, offset, gets, writes, fault, libRecords,
                   levelNames, rootLevel, hasHandler, logStart, pre, logsDir,
                   cacheVars, runs, lastWritten, overlapped>>

\* logging.error(f"...: {response.content.decode('utf-8')}"); return
LogError(p) ==
    /\ pc[p] = "report"
    /\ IF CanDecode(resp[p].body)
       THEN /\ logFile' = EmitRecord(p, "root", ERROR,
                                     <<MsgNot200>> \o Decode(resp[p].body))
            /\ pc' = [pc EXCEPT ![p] = "Failed"]
            /\ UNCHANGED fault
       ELSE /\ Raise(p, "UnicodeDecodeError")
            /\ UNCHANGED logFile
    /\ UNCHANGED <<resp, text, offset, gets, writes, libRecords, levelNames,
                   rootLevel, hasHandler, logStart, pre, logsDir, cacheVars,
                   runs, lastWritten, overlapped>>

\* pathlib.Path.home().joinpath(".axiom").mkdir(exist_ok=True)
MkdirRoot(p) ==
    /\ pc[p] = "mkdir"
    /\ axiomDir' = TRUE
    /\ pc' = [pc EXCEPT ![p] = "dumps"]
    /\ UNCHANGED <<resp, text, offset, gets, writes, fault, libRecords,
                   levelNames, rootLevel, hasHandler, logStart, pre, logVars,
                   fileExists, fileData, runs, lastWritten, overlapped>>

\* Variant: the file opened for writing before the body is parsed, as in
\* json.dump(response.json(), open(path, "w")).
DumpsAfterOpen(p) ==
    /\ pc[p] = "dumps"
    /\ IF JsonOf[resp[p].body].ok
       THEN /\ text' = [text EXCEPT ![p] = TextOf[resp[p].body]]
            /\ pc' = [pc EXCEPT ![p] = "open"]
            /\ UNCHANGED <<fault, fileExists, fileData>>
       ELSE /\ Raise(p, "JSONDecodeError")
            /\ fileExists' = TRUE
            /\ fileData' = <<>>
            /\ UNCHANGED text
    /\ UNCHANGED <<resp, offset, gets, writes, libRecords, levelNames,
                   rootLevel, hasHandler, logStart, pre, logVars, axiomDir,
                   runs, lastWritten, overlapped>>

\* text = json.dumps(response.json(), skipkeys=True, indent=4)
DumpsStep(p) ==
    /\ pc[p] = "dumps"
    /\ IF JsonOf[resp[p].body].ok
       THEN /\ text' = [text EXCEPT ![p] = TextOf[resp[p].body]]
            /\ pc' = [pc EXCEPT ![p] = "open"]
            /\ UNCHANGED fault
       ELSE /\ Raise(p, "JSONDecodeError")
            /\ UNCHANGED text
    /\ UNCHANGED <<resp, offset, gets, writes, libRecords, levelNames,
                   rootLevel, hasHandler, logStart, pre, logVars, cacheVars,
                   runs, lastWritten, overlapped>>

\* Variant: the file opened without cutting it (mode "r+" or "a+").
OpenWithoutTruncate(p) ==
    /\ pc[p] = "open"
    /\ writes' = [writes EXCEPT ![p] = @ + 1]
    /\ fileExists' = TRUE
    /\ offset' = [offset EXCEPT ![p] = 0]
    /\ pc' = [pc EXCEPT ![p] = "write"]
    /\ lastWritten' = text[p]
    /\ UNCHANGED <<resp, text, gets, fault, libRecords, levelNames, rootLevel,
                   hasHandler, logStart, pre, logVars, axiomDir, fileData, runs,
                   overlapped>>

\* version_manifest.write_text(text) opens the file with mode "w": the file
\* is created or cut to length 0, and the handle stands at position 0.
OpenForWrite(p) ==
    /\ pc[p] = "open"
    /\ writes' = [writes EXCEPT ![p] = @ + 1]
    /\ fileExists' = TRUE
    /\ fileData' = <<>>
    /\ offset' = [offset EXCEPT ![p] = 0]
    /\ pc' = [pc EXCEPT ![p] = "write"]
    /\ lastWritten' = text[p]
    /\ UNCHANGED <<resp, text, gets, fault, libRecords, levelNames, rootLevel,
                   hasHandler, logStart, pre, logVars, axiomDir, runs,
                   overlapped>>

\* The file after `data` is written at position `at`: a gap before `at` reads
\* as NUL, and what lies beyond the written range stays.
WriteAt(file, at, data) ==
    LET end == at + Len(data)
        n == IF Len(file) > end THEN Len(file) ELSE end
    IN  [i \in 1..n |->
            IF i > at /\ i <= end THEN data[i - at]
            ELSE IF i <= Len(file) THEN file[i] ELSE "<NUL>"]

\* write_text hands the text to the file, ChunkSize lexemes a system call,
\* and closes the handle after the last one.
WriteChunk(p) ==
    /\ pc[p] = "write"
    /\ LET n == Min(ChunkSize, Len(text[p]) - offset[p])
           data == SubSeq(text[p], offset[p] + 1, offset[p] + n)
       IN  /\ fileData' = WriteAt(fileData, offset[p], data)
           /\ offset' = [offset EXCEPT ![p] = @ + n]
           /\ pc' = [pc EXCEPT ![p] =
                        IF offset[p] + n = Len(text[p]) THEN "confirm" ELSE "write"]
    /\ UNCHANGED <<resp, text, gets, writes, fault, libRecords, levelNames,
                   rootLevel, hasHandler, logStart, pre, logVars, axiomDir,
                   fileExists, runs, lastWritten, overlapped>>

\* Variant: the filesystem error caught and passed over.
FilesystemFaultSwallowed(p) ==
    /\ pc[p] \in {"mkdir", "open", "write"}
    /\ pc' = [pc EXCEPT ![p] = "confirm"]
    /\ UNCHANGED <<resp, text, offset, gets, writes, fault, libRecords,
                   levelNames, rootLevel, hasHandler, logStart, pre, logVars,
                   cacheVars, runs, lastWritten, overlapped>>

\* A filesystem error (permission, disk full) at mkdir, open or write.
FilesystemFault(p) ==
    /\ pc[p] \in {"mkdir", "open", "write"}
    /\ Raise(p, "OSError")
    /\ UNCHANGED <<resp, text, offset, gets, writes, libRecords, levelNames,
                   rootLevel, hasHandler, logStart, pre, logVars, cacheVars,
                   runs, lastWritten, overlapped>>

\* logging.info(f"Wrote version_manifest to: {version_manifest.as_posix()}")
LogWrote(p) ==
    /\ pc[p] = "confirm"
    /\ logFile' = EmitRecord(p, "root", INFO, <<MsgWrote, CachePath>>)
    /\ pc' = [pc EXCEPT ![p] = "Persisted"]
    /\ UNCHANGED <<resp, text, offset, gets, writes, fault, libRecords,
                   levelNames, rootLevel, hasHandler, logStart, pre, logsDir,
                   cacheVars, runs, lastWritten, overlapped>>

\* One step of a run that has started.
Step(p) ==
    \/ SetupLogging(p)
    \/ LogUpdating(p)
    \/ SendGet(p)
    \/ \E level \in LibLevels : LibraryLog(p, level)
    \/ \E status \in Statuses, body \in Bodies : ReceiveResponse(p, status, body)
    \/ NetworkFault(p)
    \/ CheckStatus(p)
    \/ LogError(p)
    \/ MkdirRoot(p)
    \/ DumpsStep(p)
    \/ OpenForWrite(p)
    \/ WriteChunk(p)
    \/ FilesystemFault(p)
    \/ LogWrote(p)

\* Runs one after the other, as the scheduler is assumed to start them.
Next == Schedule(1) \/ Step(1)
Spec == Init /\ [][Next]_vars

\* Runs of two processes that may overlap.
NextOverlap == \E p \in Procs : ScheduleOverlapping(p) \/ Step(p)
SpecOverlap == Init /\ [][NextOverlap]_vars

\* The same runs, each process going on until its run has ended.
FairSpec == Spec /\ WF_vars(Step(1))

\* ----------------------------------------------------------------- helpers
Ended(p) == pc[p] \in {"Persisted", "Failed"}
GotResponse(p) == resp[p] # NoResponse

\* The lines the run of p has appended by itself (runs one after the other),
\* the HTTP library's lines left out.
RECURSIVE RootOnly(_)
RootOnly(lines) ==
    IF lines = <<>> THEN <<>>
    ELSE IF Head(lines).name = "root"
         THEN <<Head(lines)>> \o RootOnly(Tail(lines))
         ELSE RootOnly(Tail(lines))
RunLines(p) ==
    IF pc[p] = "Idle" THEN <<>>
    ELSE RootOnly(SubSeq(logFile, logStart[p] + 1, Len(logFile)))

CountLevel(lines, levelname) ==
    Cardinality({i \in DOMAIN lines : lines[i].levelname = levelname})

\* The message holds `part` as a run of consecutive lexemes.
Contains(msg, part) ==
    \E i \in 0..(Len(msg) - Len(part)) : SubSeq(msg, i + 1, i + Len(part)) = part

CacheUntouched(p) ==
    /\ fileExists = pre[p].exists
    /\ fileData = pre[p].data

WroteLine(p) == \E i \in DOMAIN RunLines(p) : RunLines(p)[i].message[1] = MsgWrote

RECURSIVE CountKeys(_)
RECURSIVE CountKeysIn(_, _)
CountKeysIn(seq, isDict) ==
    IF seq = <<>> THEN 0
    ELSE (IF isDict THEN 1 + CountKeys(Head(seq)[3]) ELSE CountKeys(Head(seq)))
         + CountKeysIn(Tail(seq), isDict)
\* Keys of every dict in a value.
CountKeys(val) ==
    IF val.t = "scalar" THEN 0 ELSE CountKeysIn(val.v, val.t = "dict")

\* ------------------------------------------------------------------ claims

\* C1: once a run has received a response whose status is not exactly 200
\* (204 and 404 alike), and until the run has ended, ~/.axiom and the cache
\* file are as the run found them: nothing created, nothing changed, and the
\* run never calls write_text.
C1_NonOkLeavesCacheAlone ==
    \A p \in Procs :
        (GotResponse(p) /\ resp[p].status # 200) =>
            /\ CacheUntouched(p)
            /\ axiomDir = pre[p].dir
            /\ writes[p] = 0
            /\ pc[p] \in {"validate", "report", "Failed"}

\* A run has ended on a 204 whose body is valid JSON, a cache file of an
\* earlier run being there.
C1_Witness ==
    /\ pc[1] = "Failed" /\ fault[1] = "none"
    /\ resp[1].status = 204 /\ resp[1].body = BodySmall
    /\ pre[1].exists /\ fileData = Dumps(ResponseJson(BodyNested).val)

\* C2 (as claimed): in every state the cache file is absent or holds the
\* complete serialized text most recently handed to write_text, which is
\* valid JSON; never an empty or partial text.
C2_CacheAlwaysComplete ==
    fileExists => (fileData = lastWritten /\ IsJson(fileData))

C4_FullOverwrite ==
    \A p \in Procs :
        (pc[p] = "Persisted" /\ pre[p].exists) =>
            /\ fileData = Dumps(ResponseJson(resp[p].body).val)
            /\ Len(fileData) = Len(text[p])

\* The second of two successful runs has replaced the longer nested text by
\* the shorter one.
C4_Witness ==
    /\ pc[1] = "Persisted"
    /\ pre[1].data = Dumps(ResponseJson(BodyNested).val)
    /\ resp[1].body = BodySmall
    /\ Len(pre[1].data) > Len(fileData)

InfoLine(msg) == [levelname |-> "INFO ", name |-> "root", message |-> msg]
ErrorLine(msg) == [levelname |-> "ERROR", name |-> "root", message |-> msg]

Rank(at) ==
    CASE at = "Idle" -> 0
      [] at = "setup" -> 1
      [] at = "announce" -> 2
      [] at = "get" -> 3
      [] at = "Fetching" -> 4
      [] at = "validate" -> 5
      [] at \in {"report", "mkdir"} -> 6
      [] at = "dumps" -> 7
      [] at = "open" -> 8
      [] at = "write" -> 9
      [] at = "confirm" -> 10
      [] at \in {"Persisted", "Failed"} -> 11

LevelFields == {"DEBUG", "INFO ", "WARN ", "ERROR", "FATAL"}

\* C7: once setup_logging has run, every standard level has a name of at
\* most 5 characters (WARN for WARNING, FATAL for CRITICAL); the level field
\* of every line of the log file is one of these names in exactly 5 columns;
\* and no line of the log file is a DEBUG line.
C7_LevelFieldWidth ==
    /\ \A p \in Procs :
          hasHandler[p] =>
              /\ \A level \in StdLevels : Len(levelNames[p][level]) <= LevelWidth
              /\ levelNames[p][WARNING] = "WARN"
              /\ levelNames[p][CRITICAL] = "FATAL"
              /\ levelNames[p][DEBUG] = "DEBUG"
              /\ levelNames[p][INFO] = "INFO"
              /\ levelNames[p][ERROR] = "ERROR"
              /\ rootLevel[p] = INFO
    /\ \A i \in DOMAIN logFile :
          /\ Len(logFile[i].levelname) = LevelWidth
          /\ logFile[i].levelname \in LevelFields
          /\ logFile[i].levelname # "DEBUG"

\* The HTTP library has logged a warning, and the log file shows it as WARN.
C7_Witness ==
    /\ libRecords = 1
    /\ \E i \in DOMAIN logFile :
          logFile[i].name = LibLoggerName /\ logFile[i].levelname = "WARN "

\* C8: a run whose lines in the log file include "Wrote version_manifest
\* to: ..." has made its one write_text call and written the whole text: the
\* cache file holds the text and the run is Persisted. A run that ended
\* Failed has no such line.
C8_WroteAfterWrite ==
    \A p \in Procs :
        /\ WroteLine(p) =>
              /\ pc[p] = "Persisted"
              /\ writes[p] = 1
              /\ offset[p] = Len(text[p])
              /\ fileExists /\ fileData = text[p]
        /\ pc[p] = "Persisted" => WroteLine(p)

\* A run a disk-full error ended in the middle of write_text has no "Wrote"
\* line, the run before it has.
C8_Witness ==
    /\ pc[1] = "Failed" /\ fault[1] = "OSError" /\ writes[1] = 1
    /\ ~WroteLine(1)
    /\ \E i \in 1..logStart[1] : logFile[i].message[1] = MsgWrote

C10_OverlapWholeFile ==
    (overlapped /\ pc[1] = "Persisted" /\ pc[2] = "Persisted") =>
        fileData \in {text[1], text[2]}

====
